---- MODULE Spec2Model ----
(***************************************************************************)
(* Model of ratio-finder-python-by-Rxinns.py: the start-up validation of   *)
(* the two configuration values, the search approximate_top5 and the two   *)
(* shells (run_cli_mode, App.calc) that call it.                           *)
(*                                                                         *)
(* Python's int is unbounded and its float is an IEEE-754 double, and the  *)
(* search orders candidates by float errors, so both are modelled exactly: *)
(* a natural is a sequence of limbs (little-endian, base 2^15, no high     *)
(* zero limb, <<>> is 0), a Python int is such a sequence with its low     *)
(* zero limbs counted instead of stored, and a finite double is m * 2^e    *)
(* with m below 2^53 in the canonical form the hardware rounds to.         *)
(***************************************************************************)
EXTENDS Integers, Sequences, FiniteSets

(***************************************************************************)
(* Naturals as limb sequences.                                             *)
(***************************************************************************)
Base == 2^15

RECURSIVE BNorm(_)
BNorm(x) ==
  IF x = <<>> THEN x
  ELSE IF x[Len(x)] = 0 THEN BNorm(SubSeq(x, 1, Len(x) - 1)) ELSE x

RECURSIVE BFromNat(_)
BFromNat(n) == IF n = 0 THEN <<>> ELSE <<n % Base>> \o BFromNat(n \div Base)

\* Only used on values below 2^30.
RECURSIVE BToNat(_)
BToNat(x) == IF x = <<>> THEN 0 ELSE Head(x) + Base * BToNat(Tail(x))

Limb(x, i) == IF 1 <= i /\ i <= Len(x) THEN x[i] ELSE 0

\* -1, 0, 1 as x < y, x = y, x > y: by length, then by the highest limb
\* in which the two differ.
BCmp(x, y) ==
  IF Len(x) < Len(y) THEN -1
  ELSE IF Len(x) > Len(y) THEN 1
  ELSE IF x = y THEN 0
  ELSE LET i == CHOOSE k \in 1..Len(x) :
                  x[k] # y[k] /\ \A j \in (k + 1)..Len(x) : x[j] = y[j]
       IN  IF x[i] < y[i] THEN -1 ELSE 1

BLt(x, y) == BCmp(x, y) < 0
BLe(x, y) == BCmp(x, y) <= 0

RECURSIVE BAddAt(_, _, _, _)
BAddAt(x, y, i, c) ==
  IF i > Len(x) /\ i > Len(y) THEN (IF c = 0 THEN <<>> ELSE <<c>>)
  ELSE LET s == Limb(x, i) + Limb(y, i) + c
       IN  <<s % Base>> \o BAddAt(x, y, i + 1, s \div Base)

BAdd(x, y) == BAddAt(x, y, 1, 0)

RECURSIVE BSubAt(_, _, _, _)
BSubAt(x, y, i, bw) ==
  IF i > Len(x) THEN <<>>
  ELSE LET d == x[i] - Limb(y, i) - bw
       IN  <<(d + Base) % Base>> \o BSubAt(x, y, i + 1, IF d < 0 THEN 1 ELSE 0)

\* x - y for x >= y.
BSub(x, y) == BNorm(BSubAt(x, y, 1, 0))

BAbsDiff(x, y) == IF BLt(x, y) THEN BSub(y, x) ELSE BSub(x, y)

RECURSIVE BMulAt(_, _, _, _)
BMulAt(x, k, i, c) ==
  IF i > Len(x) THEN (IF c = 0 THEN <<>> ELSE <<c>>)
  ELSE LET p == x[i] * k + c
       IN  <<p % Base>> \o BMulAt(x, k, i + 1, p \div Base)

\* x * k for 0 <= k < Base.
BMulSmall(x, k) == IF k = 0 \/ x = <<>> THEN <<>> ELSE BMulAt(x, k, 1, 0)

Reverse(s) == [i \in 1..Len(s) |-> s[Len(s) + 1 - i]]

\* Short division from limb i of x down, with r carried in: the quotient's
\* digits highest first, and the remainder. (The test on cur is always
\* true; it has cur computed before the recursion descends.)
RECURSIVE BDivSmallAt(_, _, _, _)
BDivSmallAt(x, d, i, r) ==
  IF i = 0 THEN [q |-> <<>>, r |-> r]
  ELSE LET cur == r * Base + x[i]
       IN  IF cur >= 0
           THEN LET rest == BDivSmallAt(x, d, i - 1, cur % d)
                IN  [q |-> <<cur \div d>> \o rest.q, r |-> rest.r]
           ELSE [q |-> <<>>, r |-> 0]

\* divmod(x, d) for 0 < d < Base; the remainder is an Int.
BDivModSmall(x, d) ==
  LET res == BDivSmallAt(x, d, Len(x), 0)
  IN  [q |-> BNorm(Reverse(res.q)), r |-> res.r]

\* x * 2^n and floor(x / 2^n), limb by limb: a result limb takes its low
\* bits from one limb of x and its high bits from the next.
BShl(x, n) ==
  IF x = <<>> THEN <<>>
  ELSE LET w == n \div 15
           t == n % 15
       IN  BNorm([j \in 1..(Len(x) + w + 1) |->
                   ((Limb(x, j - w) * 2^t) % Base)
                   + (Limb(x, j - w - 1) \div 2^(15 - t))])

BShr(x, n) ==
  LET w == n \div 15
      t == n % 15
  IN  IF w >= Len(x) THEN <<>>
      ELSE BNorm([j \in 1..(Len(x) - w) |->
                   (x[j + w] \div 2^t) + ((Limb(x, j + w + 1) % 2^t) * 2^(15 - t))])

RECURSIVE BitLenNat(_)
BitLenNat(n) == IF n = 0 THEN 0 ELSE 1 + BitLenNat(n \div 2)

\* int.bit_length()
BBitLen(x) == IF x = <<>> THEN 0 ELSE 15 * (Len(x) - 1) + BitLenNat(x[Len(x)])

BIsOdd(x) == x # <<>> /\ x[1] % 2 = 1

\* The largest digit d in lo..hi with d * y <= r (d = lo is known to fit).
RECURSIVE BDigit(_, _, _, _)
BDigit(r, y, lo, hi) ==
  IF lo = hi THEN lo
  ELSE LET mid == (lo + hi + 1) \div 2
       IN  IF BLe(BMulSmall(y, mid), r) THEN BDigit(r, y, mid, hi)
           ELSE BDigit(r, y, lo, mid - 1)

\* Schoolbook division from limb i of x down, with r carried in: the
\* quotient's digits highest first, and the remainder. (The test on d is
\* always true; it has d computed before the recursion descends.)
RECURSIVE BDivLongAt(_, _, _, _)
DivPrepend(d, rest) == [q |-> <<d>> \o rest.q, r |-> rest.r]

DivStep(x, y, i, cur, d) ==
  IF d >= 0 THEN DivPrepend(d, BDivLongAt(x, y, i - 1, BSub(cur, BMulSmall(y, d))))
  ELSE [q |-> <<>>, r |-> <<>>]

DivDigit(x, y, i, cur) == DivStep(x, y, i, cur, BDigit(cur, y, 0, Base - 1))

BDivLongAt(x, y, i, r) ==
  IF i = 0 THEN [q |-> <<>>, r |-> r]
  ELSE DivDigit(x, y, i, BNorm(<<x[i]>> \o r))

DivResult(res) == [q |-> BNorm(Reverse(res.q)), r |-> res.r]

DivSmallResult(res) == [q |-> res.q, r |-> BFromNat(res.r)]

\* divmod(x, y) for y > 0; quotient and remainder are both limb sequences.
\* The top Len(y) - 1 limbs of x are below y, so the long division starts
\* under them.
BDivMod(x, y) ==
  IF BLt(x, y) THEN [q |-> <<>>, r |-> x]
  ELSE IF Len(y) = 1 THEN DivSmallResult(BDivModSmall(x, y[1]))
  ELSE DivResult(BDivLongAt(x, y, Len(x) - Len(y) + 1,
                            SubSeq(x, Len(x) - Len(y) + 2, Len(x))))

RECURSIVE GcdNat(_, _)
GcdNat(x, y) == IF y = 0 THEN x ELSE GcdNat(y, x % y)

(***************************************************************************)
(* Python int (non-negative): [m, z] is m * Base^z, with m a limb sequence *)
(* whose lowest limb is not 0 (m = <<>>, z = 0 for 0).                     *)
(***************************************************************************)
LowZeros(x) ==
  IF x = <<>> THEN 0
  ELSE CHOOSE k \in 0..(Len(x) - 1) : x[k + 1] # 0 /\ \A j \in 1..k : x[j] = 0

MkInt(x, z) ==
  IF x = <<>> THEN [m |-> <<>>, z |-> 0]
  ELSE [m |-> SubSeq(x, LowZeros(x) + 1, Len(x)), z |-> z + LowZeros(x)]

IFromNat(n) == MkInt(BFromNat(n), 0)

\* 2^n
IPow2(n) == MkInt(<<2^(n % 15)>>, n \div 15)

\* The limbs of x in full; only used on ints of a few limbs.
ILimbs(x) == [i \in 1..x.z |-> 0] \o x.m

\* The value of an int below 2^30.
IToNat(x) == BToNat(ILimbs(x))

IBitLen(x) == IF x.m = <<>> THEN 0 ELSE BBitLen(x.m) + 15 * x.z

\* -1, 0, 1 as x < y, x = y, x > y. Ints of the same bit length differ in z
\* by less than the longer mantissa's length, so they are compared in full
\* above the lower z.
ICmp(x, y) ==
  IF IBitLen(x) < IBitLen(y) THEN -1
  ELSE IF IBitLen(x) > IBitLen(y) THEN 1
  ELSE IF x = y THEN 0
  ELSE LET zl == IF x.z < y.z THEN x.z ELSE y.z
       IN  BCmp([i \in 1..(x.z - zl) |-> 0] \o x.m, [i \in 1..(y.z - zl) |-> 0] \o y.m)

ILt(x, y) == ICmp(x, y) < 0
ILe(x, y) == ICmp(x, y) <= 0

\* x * k for 0 <= k < Base.
IMulSmall(x, k) == MkInt(BMulSmall(x.m, k), x.z)

\* base^e % d by repeated squaring, for 0 < d < Base.
RECURSIVE PowMod(_, _, _)
PowMod(base, e, d) ==
  IF e = 0 THEN 1 % d
  ELSE LET h == PowMod(base, e \div 2, d)
       IN  (((h * h) % d) * (IF e % 2 = 1 THEN base % d ELSE 1)) % d

\* x % d for 0 < d < Base.
IModSmall(x, d) ==
  IF x.m = <<>> THEN 0
  ELSE ((BDivModSmall(x.m, d).r) * PowMod(Base, x.z, d)) % d

\* math.gcd(num, den) for an int num and a loop index den >= 1.
PyGcd(num, den) == GcdNat(den, IModSmall(num, den))

(***************************************************************************)
(* Python float: IEEE-754 binary64, round to nearest, ties to even.        *)
(***************************************************************************)
MantBits == 53
MinExp == -1074
MaxExp == 1024

FZero == [inf |-> FALSE, m |-> <<>>, e |-> MinExp]
FInf == [inf |-> TRUE, m |-> <<>>, e |-> MaxExp]

\* The double nearest to N / D * 2^s (N, D limb sequences, D > 0); FInf on
\* overflow. With d the difference of the bit lengths, N / D lies in
\* (2^(d - 1), 2^(d + 1)); e is the exponent of the result's last mantissa
\* bit, and the mantissa is floor(N / D * 2^(s - e)) rounded on the remainder.
\* When N has to be shifted right (k = e - s > 0) the division is
\* N1 / (2 * D) with N1 = N >> (k - 1), and the bits shifted out only break
\* a tie.
MaxOf(x, y) == IF x < y THEN y ELSE x

\* N / D >= 2^d (sh0 = MantBits - d).
QuotientIsBig(N, D, sh0) ==
  IF sh0 >= 0 THEN BLe(BShl(D, MantBits), BShl(N, sh0))
  ELSE BLe(BShl(D, MantBits), BShr(N, -sh0))

LastBitExp(N, D, s, d) ==
  MaxOf(d + s - MantBits + (IF QuotientIsBig(N, D, MantBits - d) THEN 1 ELSE 0), MinExp)

Pack(q, e) == IF e + MantBits > MaxExp THEN FInf ELSE [inf |-> FALSE, m |-> q, e |-> e]

\* The mantissa after rounding may have reached 2^MantBits.
Normalize(q1, e) ==
  IF q1 = <<>> THEN FZero
  ELSE IF BBitLen(q1) > MantBits THEN Pack(BShr(q1, 1), e + 1)
  ELSE Pack(q1, e)

\* Round half to even: c compares twice the remainder with the divisor.
RoundsUp(c, sticky, q) == c > 0 \/ (c = 0 /\ (sticky \/ BIsOdd(q)))

RoundQuotient(D, e, qr, sticky) ==
  Normalize(IF RoundsUp(BCmp(qr.r, D), sticky, qr.q) THEN BAdd(qr.q, <<1>>) ELSE qr.q, e)

RoundShifted(N, D, e, k, N1) ==
  RoundQuotient(D, e, BDivMod(N1, BMulSmall(D, 2)), k > 0 /\ BShl(N1, k - 1) # N)

RoundAtExp(N, D, e, k) ==
  RoundShifted(N, D, e, k, IF k > 0 THEN BShr(N, k - 1) ELSE BShl(N, 1 - k))

RoundAt(N, D, s, e) == RoundAtExp(N, D, e, e - s)

RoundByLength(N, D, s, d) ==
  IF d + s > MaxExp THEN FInf
  ELSE IF d + s < MinExp - 1 THEN FZero
  ELSE RoundAt(N, D, s, LastBitExp(N, D, s, d))

RoundQ(N, D, s) ==
  IF N = <<>> THEN FZero ELSE RoundByLength(N, D, s, BBitLen(N) - BBitLen(D))

\* int / int (true division): the correctly rounded quotient; an infinite
\* result stands for the OverflowError CPython raises.
TrueDiv(x, y) == RoundQ(x.m, y.m, 15 * (x.z - y.z))

\* float * int, for a finite or infinite float and a small int.
FMulInt(x, n) == IF x.inf THEN FInf ELSE RoundQ(BMulSmall(x.m, n), <<1>>, x.e)

\* abs(x - y) for finite x, y.
FAbsSub(x, y) ==
  LET em == IF x.e < y.e THEN x.e ELSE y.e
  IN  RoundQ(BAbsDiff(BShl(x.m, x.e - em), BShl(y.m, y.e - em)), <<1>>, em)

\* x < y for finite doubles in canonical form.
FLess(x, y) == x.e < y.e \/ (x.e = y.e /\ BLt(x.m, y.m))

\* Round half to even of m / 2^n (n > 0), given q = floor(m / 2^n).
RoundHalfEven(m, n, q) ==
  IF RoundsUp(BCmp(BMulSmall(BSub(m, BShl(q, n)), 2), BShl(<<1>>, n)), FALSE, q)
  THEN BAdd(q, <<1>>) ELSE q

\* round(x) for a finite float: to the nearest int, ties to even.
PyRound(x) ==
  IF x.e >= 0 THEN MkInt(BShl(x.m, x.e % 15), x.e \div 15)
  ELSE IF -x.e > MantBits + 1 THEN MkInt(<<>>, 0)
  ELSE MkInt(RoundHalfEven(x.m, -x.e, BShr(x.m, -x.e)), 0)

(***************************************************************************)
(* Program state.                                                          *)
(*   MAX_DENOMINATOR, SINGLE_DIGIT_THRESHOLD, _config_warnings: the module  *)
(*     globals of the same names (Python values, see PyInt .. PyNone);     *)
(*   USE_CLI: which shell runs;                                            *)
(*   pc: "start" before the validation block has run, "crashed" when the   *)
(*     block died of an uncaught exception, "ready" when the shell waits   *)
(*     for input, "shown" when a handler call has finished,                *)
(*     "callback_error" when App.calc let an exception escape, "exited"    *)
(*     after the CLI loop ended;                                           *)
(*   a, b: the handler's parsed inputs;                                    *)
(*   result: what approximate_top5(a, b) did in the handler's call;        *)
(*   output: what the handler call displayed.                              *)
(***************************************************************************)
VARIABLES MAX_DENOMINATOR, SINGLE_DIGIT_THRESHOLD, _config_warnings, USE_CLI,
          pc, a, b, result, output

vars == <<MAX_DENOMINATOR, SINGLE_DIGIT_THRESHOLD, _config_warnings, USE_CLI,
          pc, a, b, result, output>>

(***************************************************************************)
(* Python values of the configuration block.                               *)
(***************************************************************************)
IZero == IFromNat(0)
IOne == IFromNat(1)

PyInt(neg, mag) ==
  [kind |-> "int", neg |-> neg, mag |-> mag, fl |-> FZero, nan |-> FALSE, text |-> ""]
PyBool(v) ==
  [kind |-> "bool", neg |-> FALSE, mag |-> IF v THEN IOne ELSE IZero, fl |-> FZero,
   nan |-> FALSE, text |-> ""]
PyFloat(neg, f) ==
  [kind |-> "float", neg |-> neg, mag |-> IZero, fl |-> f, nan |-> FALSE, text |-> ""]
PyNaN ==
  [kind |-> "float", neg |-> FALSE, mag |-> IZero, fl |-> FZero, nan |-> TRUE, text |-> ""]
PyStr(t) ==
  [kind |-> "str", neg |-> FALSE, mag |-> IZero, fl |-> FZero, nan |-> FALSE, text |-> t]
PyNone ==
  [kind |-> "NoneType", neg |-> FALSE, mag |-> IZero, fl |-> FZero, nan |-> FALSE, text |-> ""]

\* 10^n as a limb sequence.
RECURSIVE Pow10(_)
Pow10(n) == IF n = 0 THEN <<1>> ELSE BMulSmall(Pow10(n - 1), 10)

\* The float a decimal literal p / 10^k denotes.
Dec(p, k) == RoundQ(BFromNat(p), Pow10(k), 0)

FOne == Dec(1, 0)

(***************************************************************************)
(* Configuration validation (runs once, at import).                        *)
(***************************************************************************)
_default_MAX_DENOMINATOR == PyInt(FALSE, IFromNat(64))
_default_THRESHOLD == PyFloat(FALSE, Dec(1, 2))

WarnMaxDenominator == "MAX_DENOMINATOR reset to 64"
WarnThreshold == "SINGLE_DIGIT_THRESHOLD reset to 0.01"

\* isinstance(v, int): bool is a subclass of int.
IsInstanceInt(v) == v.kind \in {"int", "bool"}

\* v < 1 for an int or bool v.
IntBelowOne(v) == v.neg \/ v.mag = IZero

\* The MAX_DENOMINATOR block: the value kept and the warnings appended.
ValidateMaxDenominator(v) ==
  IF ~IsInstanceInt(v)
  THEN [value |-> _default_MAX_DENOMINATOR, warnings |-> <<WarnMaxDenominator>>]
  ELSE IF IntBelowOne(v)
  THEN [value |-> _default_MAX_DENOMINATOR, warnings |-> <<WarnMaxDenominator>>]
  ELSE [value |-> v, warnings |-> <<>>]

\* float(text) for the string literals of the model: the float, or no float
\* (ValueError).
ParseFloat(text) ==
  CASE text = "0.5" -> [ok |-> TRUE, val |-> PyFloat(FALSE, Dec(5, 1))]
    [] text = "1" -> [ok |-> TRUE, val |-> PyFloat(FALSE, FOne)]
    [] text = "-0.5" -> [ok |-> TRUE, val |-> PyFloat(TRUE, Dec(5, 1))]
    [] text = "1.5" -> [ok |-> TRUE, val |-> PyFloat(FALSE, Dec(15, 1))]
    [] text = "nan" -> [ok |-> TRUE, val |-> PyNaN]
    [] OTHER -> [ok |-> FALSE, val |-> PyNone]

\* float(v) for an int or bool v, given f = the nearest double or FInf.
IntToFloat(v, f) ==
  IF f.inf THEN [exc |-> "OverflowError", val |-> PyNone]
  ELSE [exc |-> "", val |-> PyFloat(v.neg /\ v.mag # IZero, f)]

\* float(v) for a str v, given p = ParseFloat(v.text).
StrToFloat(p) ==
  IF p.ok THEN [exc |-> "", val |-> p.val] ELSE [exc |-> "ValueError", val |-> PyNone]

\* float(v): the exception it raises ("" if none) and the float it returns.
FloatOf(v) ==
  IF v.kind = "float" THEN [exc |-> "", val |-> v]
  ELSE IF v.kind \in {"int", "bool"} THEN IntToFloat(v, TrueDiv(v.mag, IOne))
  ELSE IF v.kind = "str" THEN StrToFloat(ParseFloat(v.text))
  ELSE [exc |-> "TypeError", val |-> PyNone]

\* 0 <= f <= 1 for a float f (false for nan; true for -0.0).
InUnitInterval(f) ==
  /\ ~f.nan
  /\ ~f.neg \/ (~f.fl.inf /\ f.fl.m = <<>>)
  /\ f.neg \/ (~f.fl.inf /\ ~FLess(FOne, f.fl))

\* The try block, given conv = float(SINGLE_DIGIT_THRESHOLD).
ValidateConverted(v, conv) ==
  IF conv.exc \in {"ValueError", "TypeError"}
  THEN [crashed |-> FALSE, value |-> _default_THRESHOLD, warnings |-> <<WarnThreshold>>]
  ELSE IF conv.exc # ""
  THEN [crashed |-> TRUE, value |-> v, warnings |-> <<>>]
  ELSE IF ~InUnitInterval(conv.val)
  THEN [crashed |-> FALSE, value |-> _default_THRESHOLD, warnings |-> <<WarnThreshold>>]
  ELSE [crashed |-> FALSE, value |-> conv.val, warnings |-> <<>>]

\* The SINGLE_DIGIT_THRESHOLD block: whether an exception escaped it, the
\* value kept and the warnings appended.
ValidateThreshold(v) == ValidateConverted(v, FloatOf(v))

(***************************************************************************)
(* approximate_top5                                                        *)
(***************************************************************************)
\* MAX_DENOMINATOR as the bound of range(1, MAX_DENOMINATOR + 1).
MaxDen == IToNat(MAX_DENOMINATOR.mag)

\* 1 <= num <= 9 and 1 <= den <= 9
IsSingleDigit(num, den) ==
  /\ ILe(IOne, num) /\ ILe(num, IFromNat(9))
  /\ ILe(IOne, den) /\ ILe(den, IFromNat(9))

IsSingleDigitCand(c) == IsSingleDigit(c[1], c[2])

\* One pass of the for loop body for den: whether it raised (round() of an
\* infinite product, or an overflowing division), whether it hit one of the
\* two continue statements, and the candidate it appended otherwise.
PassRaised(line) == [raised |-> TRUE, line |-> line, skipped |-> FALSE, cand |-> <<>>]
PassSkipped == [raised |-> FALSE, line |-> 0, skipped |-> TRUE, cand |-> <<>>]

\* err = abs(num / den - target) and the append, given quot = num / den.
LoopAppend(target, den, num, quot) ==
  IF quot.inf THEN PassRaised(148)
  ELSE [raised |-> FALSE, line |-> 0, skipped |-> FALSE,
        cand |-> <<num, IFromNat(den), FAbsSub(quot, target)>>]

\* LoopRounded without the gcd test (no line 145).
LoopRoundedNoGcd(target, den, num) ==
  IF num = IZero THEN PassSkipped
  ELSE LoopAppend(target, den, num, TrueDiv(num, IFromNat(den)))

\* LoopRounded with "num <= 1" for "num == 0" at line 143.
LoopRoundedSkipOne(target, den, num) ==
  IF ILe(num, IOne) THEN PassSkipped
  ELSE IF PyGcd(num, den) # 1 THEN PassSkipped
  ELSE LoopAppend(target, den, num, TrueDiv(num, IFromNat(den)))

\* The two continue tests, given num = round(target * den).
LoopRounded(target, den, num) ==
  IF num = IZero THEN PassSkipped
  ELSE IF PyGcd(num, den) # 1 THEN PassSkipped
  ELSE LoopAppend(target, den, num, TrueDiv(num, IFromNat(den)))

\* round(prod), given prod = target * den.
LoopProduct(target, den, prod) ==
  IF prod.inf THEN PassRaised(142) ELSE LoopRounded(target, den, PyRound(prod))

LoopBody(target, den) == LoopProduct(target, den, FMulInt(target, den))

\* The first den whose pass raised, last + 1 if none did.
FirstRaise(last, pass) ==
  IF \E den \in 1..last : pass[den].raised
  THEN CHOOSE den \in 1..last : pass[den].raised /\ \A d \in 1..(den - 1) : ~pass[d].raised
  ELSE last + 1

Appended(p) == ~p.skipped

CandOf(kept) == [i \in 1..Len(kept) |-> kept[i].cand]

CollectLists(raised, line, candidates) ==
  [raised |-> raised,
   line |-> line,
   candidates |-> candidates,
   single_digit_candidates |-> SelectSeq(candidates, IsSingleDigitCand)]

CollectUpTo(last, pass, stop) ==
  CollectLists(stop <= last, IF stop <= last THEN pass[stop].line ELSE 0,
               CandOf(SelectSeq(SubSeq(pass, 1, stop - 1), Appended)))

CollectPasses(last, pass) == CollectUpTo(last, pass, FirstRaise(last, pass))

\* The for loop over range(1, last + 1): the two lists it appended to, in
\* order, up to the first pass that raised, and whether one did.
Collect(target, last) == CollectPasses(last, [den \in 1..last |-> LoopBody(target, den)])

\* SortByErr with entries of equal error in reverse order (a sort that is
\* not stable).
SortByErrTiesReversed(s) ==
  LET n == Len(s)
      place == [i \in 1..n |->
                 1 + Cardinality({j \in 1..n :
                       \/ FLess(s[j][3], s[i][3])
                       \/ (j > i /\ ~FLess(s[i][3], s[j][3]))})]
  IN  [k \in 1..n |-> s[CHOOSE i \in 1..n : place[i] = k]]

\* list.sort(key=lambda x: x[2]): stable and ascending in the float error,
\* so entry i lands behind every entry with a smaller error and every
\* earlier entry with the same error.
SortByErr(s) ==
  LET n == Len(s)
      place == [i \in 1..n |->
                 1 + Cardinality({j \in 1..n :
                       \/ FLess(s[j][3], s[i][3])
                       \/ (j < i /\ ~FLess(s[i][3], s[j][3]))})]
  IN  [k \in 1..n |-> s[CHOOSE i \in 1..n : place[i] = k]]

\* candidates[:5]
Top5(s) == SubSeq(s, 1, IF Len(s) < 5 THEN Len(s) ELSE 5)

\* max(1, x)
Max1(x) == IF ILt(x, IOne) THEN IOne ELSE x

\* No candidate (None, or a name that was never bound).
NoCand == <<>>

\* The call raised at the given source line; the two lists are as the loop
\* left them.
Raised(line, cands, singles) ==
  [raised |-> TRUE, line |-> line, mode |-> "", best_single_digit |-> NoCand, top5 |-> <<>>,
   candidates |-> cands, single_digit_candidates |-> singles]

\* The call returned (mode, top5); the two lists are in the order the loop
\* appended to them.
Returned(mode, pick, top5, cands, singles) ==
  [raised |-> FALSE, line |-> 0, mode |-> mode, best_single_digit |-> pick, top5 |-> top5,
   candidates |-> cands, single_digit_candidates |-> singles]

LimitSmallWith(target, extreme_den) ==
  Returned("limit_small", NoCand,
           <<<<IOne, extreme_den, FAbsSub(TrueDiv(IOne, extreme_den), target)>>>>,
           <<>>, <<>>)

\* The a < b branch, given q = b / a.
LimitSmall(target, q) ==
  IF q.inf THEN Raised(159, <<>>, <<>>) ELSE LimitSmallWith(target, Max1(PyRound(q)))

LimitLargeErr(target, extreme_num, f) ==
  IF f.inf THEN Raised(165, <<>>, <<>>)
  ELSE Returned("limit_large", NoCand, <<<<extreme_num, IOne, FAbsSub(f, target)>>>>,
                <<>>, <<>>)

LimitLargeWith(target, extreme_num) ==
  LimitLargeErr(target, extreme_num, TrueDiv(extreme_num, IOne))

\* The else branch, given q = a / b.
LimitLarge(target, q) ==
  IF q.inf THEN Raised(164, <<>>, <<>>) ELSE LimitLargeWith(target, Max1(PyRound(q)))

\* The limit-mode branch (candidates is empty).
LimitMode(x, y, target) ==
  IF ILt(x, y) THEN LimitSmall(target, TrueDiv(y, x)) ELSE LimitLarge(target, TrueDiv(x, y))

\* PickSingleDigit without the is_global_best test (no lines 182..186).
PickWithoutGlobalBest(sorted, singles, threshold) ==
  IF singles = <<>> THEN NoCand
  ELSE IF FLess(singles[1][3], threshold) THEN singles[1]
  ELSE NoCand

\* The part after the sort: which single-digit candidate, if any, is
\* returned in place of None. sorted and singles are the two sorted lists.
PickSingleDigit(sorted, singles, threshold) ==
  IF singles = <<>> THEN NoCand
  ELSE IF FLess(singles[1][3], threshold)
  THEN IF ~(singles[1][1] = sorted[1][1] /\ singles[1][2] = sorted[1][2])
       THEN singles[1] ELSE NoCand
  ELSE NoCand

\* The return statements after the sort. The returned mode is "None" or
\* "single_digit" (the code returns the candidate itself as the mode; here
\* it is best_single_digit).
ReturnPick(pick, sorted, loop) ==
  Returned(IF pick = NoCand THEN "None" ELSE "single_digit", pick, Top5(sorted),
           loop.candidates, loop.single_digit_candidates)

AfterSort(sorted, singles, threshold, loop) ==
  ReturnPick(PickSingleDigit(sorted, singles, threshold), sorted, loop)

\* The function from the end of the for loop on.
AfterLoop(x, y, target, threshold, loop) ==
  IF loop.raised THEN Raised(loop.line, loop.candidates, loop.single_digit_candidates)
  ELSE IF loop.candidates = <<>> THEN LimitMode(x, y, target)
  ELSE AfterSort(SortByErr(loop.candidates), SortByErr(loop.single_digit_candidates),
                 threshold, loop)

\* FromTarget with the loop over range(1, min(b, MAX_DENOMINATOR) + 1).
FromTargetCapped(x, y, max_denominator, threshold, target) ==
  IF target.inf THEN Raised(136, <<>>, <<>>)
  ELSE AfterLoop(x, y, target, threshold,
                 Collect(target, IF ILt(y, IFromNat(max_denominator))
                                 THEN IToNat(y) ELSE max_denominator))

\* The function from the for loop on, given target = a / b.
FromTarget(x, y, max_denominator, threshold, target) ==
  IF target.inf THEN Raised(136, <<>>, <<>>)
  ELSE AfterLoop(x, y, target, threshold, Collect(target, max_denominator))

\* The body of approximate_top5(x, y), with the two globals it reads as
\* parameters.
Approximate(x, y, max_denominator, threshold) ==
  FromTarget(x, y, max_denominator, threshold, TrueDiv(x, y))

\* approximate_top5(x, y) under the current configuration.
approximate_top5(x, y) == Approximate(x, y, MaxDen, SINGLE_DIGIT_THRESHOLD.fl)

(***************************************************************************)
(* format_error                                                            *)
(***************************************************************************)
Fixed8Scaled(scaled, e) ==
  IF e >= 0 THEN MkInt(BShl(scaled, e % 15), e \div 15)
  ELSE MkInt(RoundHalfEven(scaled, -e, BShr(scaled, -e)), 0)

\* round(err * 10^8) to the nearest int, ties to even: the digits of
\* f"{err:.8f}" without the decimal point.
Fixed8(err) == Fixed8Scaled(BMulSmall(BMulSmall(err.m, 10000), 10000), err.e)

\* The string format_error returns: its leading text and, in the last
\* tier, the digits that follow.
format_error(err) ==
  IF FLess(err, Dec(1, 16)) THEN [text |-> "=0", digits |-> IZero]
  ELSE IF FLess(err, Dec(1, 8)) THEN [text |-> "<0.00000001", digits |-> IZero]
  ELSE [text |-> "~", digits |-> Fixed8(err)]

(***************************************************************************)
(* The shells: one loop iteration of run_cli_mode, one call of App.calc.   *)
(***************************************************************************)
\* A displayed ratio with its error line, and a displayed fixed text.
Item(label, idx, num, den, err_str) ==
  [label |-> label, idx |-> idx, num |-> num, den |-> den, err_str |-> err_str]

Msg(text) ==
  [label |-> text, idx |-> 0, num |-> IZero, den |-> IZero,
   err_str |-> [text |-> "", digits |-> IZero]]

\* result before approximate_top5 has been called.
NotCalled ==
  [raised |-> FALSE, line |-> 0, mode |-> "not_called", best_single_digit |-> NoCand, top5 |-> <<>>,
   candidates |-> <<>>, single_digit_candidates |-> <<>>]

\* a <= 0 or b <= 0
NotPositive(x, y) == ILe(x, IZero) \/ ILe(y, IZero)

\* (a == 1 and b > MAX_DENOMINATOR) or (b == 1 and a > MAX_DENOMINATOR)
ExactPath(x, y) ==
  \/ x = IOne /\ ILt(MAX_DENOMINATOR.mag, y)
  \/ y = IOne /\ ILt(MAX_DENOMINATOR.mag, x)

\* What the exact path displays: the input ratio, "=0" and the fixed message.
ExactOutput(x, y) ==
  << IF x = IOne
     THEN Item("approx_ratio", 1, IOne, y, [text |-> "=0", digits |-> IZero])
     ELSE Item("approx_ratio", 1, x, IOne, [text |-> "=0", digits |-> IZero]),
     Msg("EE_msg") >>

\* What the shells display for a returned (mode, top5); run_cli_mode prints
\* these lines, App.calc joins the same ones into the text widget.
Display(r) ==
  IF r.mode \in {"limit_small", "limit_large"}
  THEN << Item("special_ratio", 0, r.top5[1][1], r.top5[1][2], format_error(r.top5[1][3])),
          Msg("limit_warning") >>
  ELSE (IF r.mode = "single_digit"
        THEN << Item("single_digit_ratio", 0, r.best_single_digit[1],
                     r.best_single_digit[2], format_error(r.best_single_digit[3])) >>
        ELSE << >>)
       \o [i \in 1..Len(r.top5) |->
            Item("approx_ratio", i, r.top5[i][1], r.top5[i][2], format_error(r.top5[i][3]))]

\* What either shell displays once approximate_top5 has returned r.
Shown(x, y, r) == IF ExactPath(x, y) THEN ExactOutput(x, y) ELSE Display(r)

(***************************************************************************)
(* Inputs.                                                                 *)
(***************************************************************************)
MaxVal == 10
MaxScale == 2

\* 2^54 - 1
Pow2_54m1 == MkInt(<<32767, 32767, 32767, 511>>, 0)

\* The ints a user types: 0..MaxVal and a few large ones.
Inputs == {IFromNat(n) : n \in 0..MaxVal} \cup {IPow2(53), Pow2_54m1, IPow2(1023), IPow2(1100)}

\* The values the two configuration lines are edited to.
RawMaxDenominators ==
  { PyInt(FALSE, IFromNat(64)), PyInt(FALSE, IFromNat(1)), PyInt(FALSE, IFromNat(8)),
    PyInt(FALSE, IZero), PyInt(TRUE, IFromNat(3)), PyInt(FALSE, IPow2(1100)),
    PyBool(TRUE), PyBool(FALSE), PyFloat(FALSE, Dec(8, 0)), PyStr("8"), PyNone }

RawThresholds ==
  { PyFloat(FALSE, Dec(1, 2)), PyFloat(FALSE, Dec(5, 1)), PyFloat(FALSE, FZero),
    PyFloat(TRUE, FZero), PyFloat(FALSE, FOne), PyFloat(FALSE, Dec(15, 1)),
    PyFloat(TRUE, Dec(5, 1)), PyFloat(FALSE, FInf), PyNaN,
    PyInt(FALSE, IZero), PyInt(FALSE, IOne), PyInt(FALSE, IFromNat(2)),
    PyInt(TRUE, IOne), PyInt(FALSE, IPow2(1100)), PyBool(TRUE),
    PyStr("0.5"), PyStr("1.5"), PyStr("abc"), PyNone }

\* The edited configurations under which the shells are explored.
ShellConfigs ==
  { <<PyBool(TRUE), PyFloat(FALSE, Dec(1, 2))>>,
    <<PyInt(FALSE, IFromNat(3)), PyStr("0.5")>>,
    <<PyInt(FALSE, IFromNat(9)), PyFloat(FALSE, Dec(5, 1))>>,
    <<PyInt(FALSE, IFromNat(2)), PyInt(FALSE, IPow2(1100))>> }

(***************************************************************************)
(* Actions.                                                                *)
(***************************************************************************)
Start(max_denominator, threshold, cli) ==
  /\ MAX_DENOMINATOR = max_denominator
  /\ SINGLE_DIGIT_THRESHOLD = threshold
  /\ _config_warnings = <<>>
  /\ USE_CLI = cli
  /\ pc = "start"
  /\ a = IZero
  /\ b = IZero
  /\ result = NotCalled
  /\ output = <<>>

Init == \E cfg \in ShellConfigs, cli \in BOOLEAN : Start(cfg[1], cfg[2], cli)

InitStartup ==
  \E m \in RawMaxDenominators, t \in RawThresholds, cli \in BOOLEAN : Start(m, t, cli)

\* The assignments of the validation block, given what its two checks keep.
Validated(vm, vt) ==
  /\ MAX_DENOMINATOR' = vm.value
  /\ SINGLE_DIGIT_THRESHOLD' = vt.value
  /\ _config_warnings' = vm.warnings \o vt.warnings
  /\ pc' = IF vt.crashed THEN "crashed" ELSE "ready"

\* The validation block at import: both checks in order; an exception that
\* the second one does not catch ends the program.
ConfigValidation ==
  /\ pc = "start"
  /\ Validated(ValidateMaxDenominator(MAX_DENOMINATOR),
               ValidateThreshold(SINGLE_DIGIT_THRESHOLD))
  /\ UNCHANGED <<USE_CLI, a, b, result, output>>

\* run_cli_mode from the call of approximate_top5 on: r is what the call
\* did; an exception is caught by "except Exception" and reported.
CliDisplays(x, y, r) ==
  /\ result' = r
  /\ output' = IF r.raised THEN <<Msg("error_occurred")>> ELSE Shown(x, y, r)

\* One iteration of the while loop of run_cli_mode, on the input "x:y".
run_cli_mode(x, y) ==
  /\ pc = "ready"
  /\ USE_CLI
  /\ a' = x
  /\ b' = y
  /\ pc' = "shown"
  /\ IF NotPositive(x, y)
     THEN /\ result' = NotCalled
          /\ output' = <<Msg("need_positive")>>
     ELSE CliDisplays(x, y, approximate_top5(x, y))
  /\ UNCHANGED <<MAX_DENOMINATOR, SINGLE_DIGIT_THRESHOLD, _config_warnings, USE_CLI>>

\* The input "q": the loop ends.
CliQuit ==
  /\ pc = "ready"
  /\ USE_CLI
  /\ pc' = "exited"
  /\ UNCHANGED <<MAX_DENOMINATOR, SINGLE_DIGIT_THRESHOLD, _config_warnings, USE_CLI,
                 a, b, result, output>>

\* App.calc from the call of approximate_top5 on: r is what the call did.
\* Only ValueError is caught, so an exception of approximate_top5 leaves
\* the callback without anything displayed.
GuiDisplays(x, y, r) ==
  /\ result' = r
  /\ output' = IF r.raised THEN << >> ELSE Shown(x, y, r)
  /\ pc' = IF r.raised THEN "callback_error" ELSE "shown"

\* One call of App.calc with x and y in the two entry fields.
calc(x, y) ==
  /\ pc = "ready"
  /\ ~USE_CLI
  /\ a' = x
  /\ b' = y
  /\ IF NotPositive(x, y)
     THEN /\ result' = NotCalled
          /\ output' = <<Msg("need_positive")>>
          /\ pc' = "shown"
     ELSE GuiDisplays(x, y, approximate_top5(x, y))
  /\ UNCHANGED <<MAX_DENOMINATOR, SINGLE_DIGIT_THRESHOLD, _config_warnings, USE_CLI>>

\* The handler is over: its locals are gone and the shell waits for the
\* next input.
NextInput ==
  /\ pc \in {"shown", "callback_error"}
  /\ pc' = "ready"
  /\ a' = IZero
  /\ b' = IZero
  /\ result' = NotCalled
  /\ output' = <<>>
  /\ UNCHANGED <<MAX_DENOMINATOR, SINGLE_DIGIT_THRESHOLD, _config_warnings, USE_CLI>>

Next ==
  \/ ConfigValidation
  \/ \E x \in Inputs, y \in Inputs : run_cli_mode(x, y)
  \/ CliQuit
  \/ \E x \in Inputs, y \in Inputs : calc(x, y)
  \/ NextInput

Spec == Init /\ [][Next]_vars

NextStartup == ConfigValidation

SpecStartup == InitStartup /\ [][NextStartup]_vars

(***************************************************************************)
(* Properties.                                                             *)
(***************************************************************************)
\* A handler has called approximate_top5(a, b); the call has returned.
Called == pc \in {"shown", "callback_error"} /\ result.mode # "not_called"
Returns == Called /\ ~result.raised

\* The outcome has a candidate list from the loop (normal or
\* single-digit-preferred).
Listed == Returns /\ result.mode \in {"None", "single_digit"}

\* The for loop ran to its end and recorded nothing.
LoopEmpty == Called /\ result.candidates = <<>> /\ (~result.raised \/ result.line > 153)

ErrEq(x, y) == ~FLess(x, y) /\ ~FLess(y, x)

\* The entry of s of least error, the earliest one if several have it.
BestOf(s) ==
  s[CHOOSE i \in 1..Len(s) :
      /\ \A j \in 1..Len(s) : ~FLess(s[j][3], s[i][3])
      /\ \A j \in 1..(i - 1) : FLess(s[i][3], s[j][3])]

SamePair(c, d) == c[1] = d[1] /\ c[2] = d[2]

\* Every candidate the call returned: the list and the pick, if any.
ReturnedCands ==
  {result.top5[i] : i \in 1..Len(result.top5)}
    \cup (IF result.mode = "single_digit" THEN {result.best_single_digit} ELSE {})

GcdIsOne(c) ==
  IF c[1] = IOne \/ c[2] = IOne THEN TRUE
  ELSE IF ILt(c[2], IFromNat(Base)) THEN PyGcd(c[1], IToNat(c[2])) = 1
  ELSE FALSE

\* What the call did, as far as its caller sees it.
Outcome(r) ==
  [raised |-> r.raised, mode |-> r.mode, best_single_digit |-> r.best_single_digit,
   top5 |-> r.top5]

\* C1: whenever approximate_top5 records at least one candidate, it returns
\* the single-digit-preferred outcome if and only if the single-digit bucket
\* is not empty, its least-error entry has an error below
\* SINGLE_DIGIT_THRESHOLD and that entry is another pair than the first entry
\* of the error-sorted list; in every other such case it returns the normal
\* outcome without a pick.
C1_SingleDigitRule ==
  (Called /\ result.candidates # <<>>) =>
    IF /\ result.single_digit_candidates # <<>>
       /\ FLess(BestOf(result.single_digit_candidates)[3], SINGLE_DIGIT_THRESHOLD.fl)
       /\ ~SamePair(BestOf(result.single_digit_candidates), BestOf(result.candidates))
    THEN /\ result.mode = "single_digit"
         /\ result.best_single_digit = BestOf(result.single_digit_candidates)
    ELSE /\ result.mode = "None"
         /\ result.best_single_digit = NoCand

\* C2: in the normal and single-digit-preferred outcomes the returned list
\* is the first min(5, n) of the n recorded candidates in the order of
\* ascending error with ties in ascending denominator: its errors never
\* decrease, entries of equal error stand smaller denominator first, and no
\* candidate left out precedes one that is in it.
C2_TopFiveSorted ==
  Listed =>
    /\ Len(result.top5) = (IF Len(result.candidates) < 5 THEN Len(result.candidates) ELSE 5)
    /\ \A i \in 1..Len(result.top5) :
         \E j \in 1..Len(result.candidates) : result.candidates[j] = result.top5[i]
    /\ \A i \in 1..Len(result.top5), j \in 1..Len(result.top5) :
         i < j =>
           /\ ~FLess(result.top5[j][3], result.top5[i][3])
           /\ ErrEq(result.top5[i][3], result.top5[j][3])
                => ILt(result.top5[i][2], result.top5[j][2])
    /\ \A j \in 1..Len(result.candidates) :
         (\A i \in 1..Len(result.top5) : result.top5[i] # result.candidates[j]) =>
           \A i \in 1..Len(result.top5) :
             /\ ~FLess(result.candidates[j][3], result.top5[i][3])
             /\ ErrEq(result.candidates[j][3], result.top5[i][3])
                  => ILt(result.top5[i][2], result.candidates[j][2])

\* A list of five out of more candidates, one of those left out having the
\* error of the last one listed.
C2_Witness ==
  /\ Listed
  /\ Len(result.candidates) > 5
  /\ \E j \in 1..Len(result.candidates) :
       /\ \A i \in 1..5 : result.top5[i] # result.candidates[j]
       /\ ErrEq(result.candidates[j][3], result.top5[5][3])

\* C3: approximate_top5 returns a limit mode if and only if the loop
\* recorded no candidate; then, if a < b it returns limit_small with the one
\* candidate (1, max(1, round(b/a)), |1/den - a/b|), and otherwise
\* limit_large with the one candidate (max(1, round(a/b)), 1, |num - a/b|).
C3_LimitRule ==
  Called =>
    /\ (result.mode \in {"limit_small", "limit_large"}) <=> LoopEmpty
    /\ LoopEmpty =>
         IF ILt(a, b)
         THEN /\ result.mode = "limit_small"
              /\ result.top5 =
                   << <<IOne, Max1(PyRound(TrueDiv(b, a))),
                        FAbsSub(TrueDiv(IOne, Max1(PyRound(TrueDiv(b, a)))),
                                TrueDiv(a, b))>> >>
         ELSE /\ result.mode = "limit_large"
              /\ result.top5 =
                   << <<Max1(PyRound(TrueDiv(a, b))), IOne,
                        FAbsSub(TrueDiv(Max1(PyRound(TrueDiv(a, b))), IOne),
                                TrueDiv(a, b))>> >>

\* C4: in both shells, for inputs a >= 1 and b >= 1, the handler displays
\* the fixed exact result (the ratio a:b itself with the error "=0", then
\* the fixed message, and nothing else) if and only if
\* (a = 1 and b > MAX_DENOMINATOR) or (b = 1 and a > MAX_DENOMINATOR).
C4_ExactPathRule ==
  (pc \in {"shown", "callback_error"} /\ ILe(IOne, a) /\ ILe(IOne, b)) =>
    ((output = << [label |-> "approx_ratio", idx |-> 1, num |-> a, den |-> b,
                   err_str |-> [text |-> "=0", digits |-> IZero]],
                  Msg("EE_msg") >>)
     <=> \/ a = IOne /\ ILt(MAX_DENOMINATOR.mag, b)
         \/ b = IOne /\ ILt(MAX_DENOMINATOR.mag, a))

\* C5 as stated: every candidate approximate_top5 returns, in every mode,
\* has a numerator >= 1, a denominator in 1..MAX_DENOMINATOR and gcd 1.
C5_Original ==
  Returns =>
    \A c \in ReturnedCands :
      /\ ILe(IOne, c[1])
      /\ ILe(IOne, c[2]) /\ ILe(c[2], MAX_DENOMINATOR.mag)
      /\ GcdIsOne(c)

\* C5: every candidate approximate_top5 returns has a numerator >= 1, a
\* denominator >= 1 and gcd 1; in the normal and single-digit-preferred
\* outcomes the denominator is at most MAX_DENOMINATOR, and the one
\* candidate of limit_small is 1 over a denominator above MAX_DENOMINATOR.
C5_ReducedCandidates ==
  Returns =>
    \A c \in ReturnedCands :
      /\ ILe(IOne, c[1])
      /\ ILe(IOne, c[2])
      /\ GcdIsOne(c)
      /\ Listed => ILe(c[2], MAX_DENOMINATOR.mag)
      /\ result.mode = "limit_small" => (c[1] = IOne /\ ILt(MAX_DENOMINATOR.mag, c[2]))

\* A limit_small outcome, whose denominator is above MAX_DENOMINATOR.
C5_Witness ==
  /\ Returns
  /\ result.mode = "limit_small"
  /\ ILt(MAX_DENOMINATOR.mag, result.top5[1][2])

\* C6: for every k >= 1, approximate_top5(k*a, k*b) does what
\* approximate_top5(a, b) did: the same mode, the same pick and the same
\* list; and approximate_top5(2, 4) does what approximate_top5(1, 2) does.
C6_ScaleInvariant ==
  Called =>
    /\ \A k \in 2..MaxScale :
         Outcome(approximate_top5(IMulSmall(a, k), IMulSmall(b, k))) = Outcome(result)
    /\ (a = IFromNat(2) /\ b = IFromNat(4))
         => Outcome(approximate_top5(IOne, IFromNat(2))) = Outcome(result)

\* approximate_top5(2, 4) has returned a list.
C6_Witness == Listed /\ a = IFromNat(2) /\ b = IFromNat(4)

\* C7: approximate_top5 never raises for a >= 1 and b >= 1; it returns one
\* of the four outcomes with a list of 1 to 5 candidates, of exactly 1 in
\* the two limit modes.
C7_Total ==
  Called =>
    /\ ~result.raised
    /\ result.mode \in {"None", "single_digit", "limit_small", "limit_large"}
    /\ 1 <= Len(result.top5) /\ Len(result.top5) <= 5
    /\ result.mode \in {"limit_small", "limit_large"} => Len(result.top5) = 1

\* MAX_DENOMINATOR as configured is an integer >= 1.
MaxDenominatorValid(v) == v.kind \in {"int", "bool"} /\ ~v.neg /\ v.mag # IZero

\* SINGLE_DIGIT_THRESHOLD as configured converts to a real in [0, 1].
ThresholdValid(v) ==
  \/ v.kind = "float" /\ ~v.nan /\ ~v.fl.inf
       /\ (v.fl.m = <<>> \/ (~v.neg /\ ~FLess(FOne, v.fl)))
  \/ v.kind \in {"int", "bool"} /\ (v.mag = IZero \/ (v.mag = IOne /\ ~v.neg))
  \/ v.kind = "str" /\ v.text \in {"0.5", "1"}

\* The float a valid threshold is kept as.
ThresholdKept(v) ==
  IF v.kind = "float" THEN v
  ELSE IF v.kind = "str" THEN PyFloat(FALSE, IF v.text = "1" THEN FOne ELSE Dec(5, 1))
  ELSE PyFloat(FALSE, IF v.mag = IZero THEN FZero ELSE FOne)

\* C8: start-up replaces a MAX_DENOMINATOR that is not an integer >= 1 by
\* 64 and a SINGLE_DIGIT_THRESHOLD that is not a real in [0, 1] by 0.01,
\* with one warning each; it keeps a valid value without a warning; so the
\* program starts with valid values and as many warnings as invalid values.
C8_ValidationRule ==
  [][pc = "start" =>
       /\ pc' = "ready"
       /\ MAX_DENOMINATOR' = (IF MaxDenominatorValid(MAX_DENOMINATOR)
                              THEN MAX_DENOMINATOR ELSE PyInt(FALSE, IFromNat(64)))
       /\ SINGLE_DIGIT_THRESHOLD' = (IF ThresholdValid(SINGLE_DIGIT_THRESHOLD)
                                     THEN ThresholdKept(SINGLE_DIGIT_THRESHOLD)
                                     ELSE PyFloat(FALSE, Dec(1, 2)))
       /\ _config_warnings' =
            (IF MaxDenominatorValid(MAX_DENOMINATOR) THEN <<>> ELSE <<WarnMaxDenominator>>)
            \o (IF ThresholdValid(SINGLE_DIGIT_THRESHOLD) THEN <<>> ELSE <<WarnThreshold>>)
       /\ MaxDenominatorValid(MAX_DENOMINATOR')
       /\ ThresholdValid(SINGLE_DIGIT_THRESHOLD')]_vars

\* C9 as stated: the loop leaves the candidate list empty precisely when
\* 2 * a * MAX_DENOMINATOR <= b, and limit_large is never returned.
C9_Original ==
  (Called /\ (~result.raised \/ result.line > 153)) =>
    /\ LoopEmpty <=> ILe(IMulSmall(IMulSmall(a, 2), MaxDen), b)
    /\ result.mode # "limit_large"

\* C9: the loop leaves the candidate list empty only when a < b, and
\* always when 2 * a * MAX_DENOMINATOR <= b; limit_large is never returned.
C9_EmptyOnlyBelowOne ==
  Called =>
    /\ LoopEmpty => ILt(a, b)
    /\ ILe(IMulSmall(IMulSmall(a, 2), MaxDen), b) => LoopEmpty
    /\ result.mode # "limit_large"

\* limit_small although 2 * a * MAX_DENOMINATOR > b.
C9_Witness ==
  /\ LoopEmpty
  /\ result.mode = "limit_small"
  /\ ~ILe(IMulSmall(IMulSmall(a, 2), MaxDen), b)

\* C10: in the single-digit-preferred outcome the pick's error is strictly
\* greater than the error of the first entry of the returned list, and the
\* pick is not that first entry.
C10_PickWorseThanBest ==
  (Returns /\ result.mode = "single_digit") =>
    /\ FLess(result.top5[1][3], result.best_single_digit[3])
    /\ ~SamePair(result.best_single_digit, result.top5[1])

\* A single-digit-preferred outcome whose pick stands later in the list.
C10_Witness ==
  /\ Returns
  /\ result.mode = "single_digit"
  /\ \E i \in 2..Len(result.top5) : result.top5[i] = result.best_single_digit

====
